---- MODULE Spec2Model ----
(***************************************************************************)
(* win-fs-redirect (src/src/lib.rs): the guard DisableFsRedirection, its   *)
(* constructor start() and its Drop implementation, together with the two  *)
(* Wow64 primitives it calls and the calling code that owns the guards.    *)
(***************************************************************************)
EXTENDS Integers, Sequences, FiniteSets, TLC

\* ------------------------------------------------------------------ bounds
MaxGuards == 2      \* guards created in one run

Threads == {"A", "B"}
\* Values of the per-thread redirection word kept by the OS, which are the
\* values a PVOID token can take: 0 = redirection enabled (the default, and
\* the zeroed `old`), 1 = redirection disabled, Junk = any other bit pattern.
Enabled == 0
Disabled == 1
Junk == 2
PVOID == {Enabled, Disabled, Junk}
\* GetLastError codes a failing primitive may leave; 0 is "no error yet".
DisableErrCodes == {1}
RevertErrCodes == {5}

VARIABLES
    redir,      \* [Threads -> PVOID]: the OS's per-thread redirection word
    lastError,  \* [Threads -> Nat]: the OS's per-thread last-error code
    guards,     \* sequence of DisableFsRedirection values, in creation order: the
                \* field h, and the history of the value (the thread and the depth
                \* it was created at, the OS's return value and the token it wrote,
                \* whether it was dropped and how, the revert calls made for it)
    scopes,     \* [Threads -> Seq(guard id)]: bindings whose scope is open, innermost last
    status,     \* [Threads -> {"running", "unwinding"}]
    log,        \* sequence of error! records (the code logged)
    result      \* what the last call of start() returned, and what the OS did in it

vars == <<redir, lastError, guards, scopes, status, log, result>>

\* ------------------------------------------------------- the OS primitives
\* BOOL Wow64DisableWow64FsRedirection(PVOID *OldValue): on success stores the
\* thread's redirection word in *OldValue, disables redirection and returns 1;
\* on failure returns 0, leaves *OldValue (zeroed by the caller) and the word
\* alone and sets the last error.
Wow64DisableWow64FsRedirection(t, ok, code) ==
    IF ok
    THEN [ret |-> 1, old |-> redir[t],
          redir |-> [redir EXCEPT ![t] = Disabled], lastError |-> lastError]
    ELSE [ret |-> 0, old |-> 0,
          redir |-> redir, lastError |-> [lastError EXCEPT ![t] = code]]

\* BOOL Wow64RevertWow64FsRedirection(PVOID OldValue): on success sets the
\* thread's redirection word to OldValue and returns 1; on failure returns 0
\* and sets the last error.
Wow64RevertWow64FsRedirection(t, v, ok, code) ==
    IF ok
    THEN [ret |-> 1, redir |-> [redir EXCEPT ![t] = v], lastError |-> lastError]
    ELSE [ret |-> 0, redir |-> redir, lastError |-> [lastError EXCEPT ![t] = code]]

\* ----------------------------------------------------------------- the guard
\* pub struct DisableFsRedirection(Option<*mut PVOID>)
None == [tag |-> "None", ptr |-> "null"]
Some(p) == [tag |-> "Some", ptr |-> p]

\* &mut old: the address of start()'s local `old`, a slot of the frame of
\* start() on the calling thread's stack.
AddrOfOld(t) == t

\* *h in drop(): h points into the frame of a start() call that has returned,
\* so the read is of dead stack memory and may yield any PVOID value.
Deref(p) == PVOID

\* The guard holds a raw pointer, so the type is neither Send nor Sync: only
\* the thread that called start() can ever hold, and so drop, the guard.
HolderThreadsAny(g) == Threads
HolderThreads(g) == {guards[g].thread}

Live(g) == guards[g].state = "live"
GuardIds == 1..Len(guards)

Init ==
    /\ redir = [t \in Threads |-> Enabled]
    /\ lastError = [t \in Threads |-> 0]
    /\ guards = <<>>
    /\ scopes = [t \in Threads |-> <<>>]
    /\ status = [t \in Threads |-> "running"]
    /\ log = <<>>
    /\ result = [res |-> "none", code |-> 0, ret |-> 1, oserr |-> 0, guard |-> 0]

\* ------------------------------------------------------------------ start()
\* GetLastError(), called on thread t after the OS call left `le`.
GetLastError(le, t) == le[t]

\* A start() that reports the primitive's return value instead of the last error.
start_ErrRet(t, ok, code) ==
    LET os == Wow64DisableWow64FsRedirection(t, ok, code) IN
    IF os.ret = 1
    THEN [res |-> "Ok", ret |-> os.ret, code |-> 0, made |-> TRUE,
          h |-> Some(AddrOfOld(t)), old |-> os.old,
          redir |-> os.redir, lastError |-> os.lastError]
    ELSE [res |-> "Err", ret |-> os.ret, code |-> os.ret, made |-> FALSE,
          h |-> None, old |-> os.old,
          redir |-> os.redir, lastError |-> os.lastError]

\* A start() that calls the primitive only for the first guard and hands out
\* the first guard's pointer again afterwards.
start_Cached(t, ok, code) ==
    LET os == Wow64DisableWow64FsRedirection(t, ok, code) IN
    IF Len(guards) > 0
    THEN [res |-> "Ok", ret |-> 1, code |-> 0, made |-> TRUE,
          h |-> guards[1].h, old |-> guards[1].written,
          redir |-> redir, lastError |-> lastError]
    ELSE IF os.ret = 1
    THEN [res |-> "Ok", ret |-> os.ret, code |-> 0, made |-> TRUE,
          h |-> Some(AddrOfOld(t)), old |-> os.old,
          redir |-> os.redir, lastError |-> os.lastError]
    ELSE [res |-> "Err", ret |-> os.ret, code |-> GetLastError(os.lastError, t),
          made |-> FALSE, h |-> None, old |-> os.old,
          redir |-> os.redir, lastError |-> os.lastError]

\* pub fn start() -> Result<DisableFsRedirection, u32>, called on thread t;
\* (ok, code) is what the OS does with the call.  `old` is the value the
\* primitive stored in the local; the guard keeps only its address.
start(t, ok, code) ==
    LET os == Wow64DisableWow64FsRedirection(t, ok, code) IN
    IF os.ret = 1
    THEN [res |-> "Ok", ret |-> os.ret, code |-> 0, made |-> TRUE,
          h |-> Some(AddrOfOld(t)), old |-> os.old,
          redir |-> os.redir, lastError |-> os.lastError]
    ELSE [res |-> "Err", ret |-> os.ret, code |-> GetLastError(os.lastError, t),
          made |-> FALSE, h |-> None, old |-> os.old,
          redir |-> os.redir, lastError |-> os.lastError]

\* ------------------------------------------------------------------- drop()
\* One call of the revert primitive made for guard g, as recorded.
RevertCall(t, v, ret) == [thread |-> t, arg |-> v, ret |-> ret]

\* A drop() that tries the revert a second time when the first one fails.
drop_Retry(t, g, v, ok, code) ==
    LET os == Wow64RevertWow64FsRedirection(t, v, ok, code) IN
    IF guards[g].h.tag = "Some"
    THEN [h |-> guards[g].h,
          calls |-> IF os.ret # 1
                    THEN <<RevertCall(t, v, os.ret), RevertCall(t, v, os.ret)>>
                    ELSE <<RevertCall(t, v, os.ret)>>,
          ret |-> os.ret, redir |-> os.redir, lastError |-> os.lastError,
          logged |-> IF os.ret # 1 THEN <<GetLastError(os.lastError, t)>> ELSE <<>>,
          panic |-> FALSE]
    ELSE [h |-> guards[g].h, calls |-> <<>>, ret |-> 1, redir |-> redir,
          lastError |-> lastError, logged |-> <<>>, panic |-> FALSE]

\* A drop() that does nothing while the thread is unwinding from a panic.
drop_SkipWhenPanicking(t, g, v, ok, code) ==
    LET os == Wow64RevertWow64FsRedirection(t, v, ok, code) IN
    IF guards[g].h.tag = "Some" /\ status[t] # "unwinding"
    THEN [h |-> guards[g].h, calls |-> <<RevertCall(t, v, os.ret)>>,
          ret |-> os.ret, redir |-> os.redir, lastError |-> os.lastError,
          logged |-> IF os.ret # 1 THEN <<GetLastError(os.lastError, t)>> ELSE <<>>,
          panic |-> FALSE]
    ELSE [h |-> guards[g].h, calls |-> <<>>, ret |-> 1, redir |-> redir,
          lastError |-> lastError, logged |-> <<>>, panic |-> FALSE]

\* A drop() that panics on a failed revert instead of logging it.
drop_Panic(t, g, v, ok, code) ==
    LET os == Wow64RevertWow64FsRedirection(t, v, ok, code) IN
    IF guards[g].h.tag = "Some"
    THEN [h |-> guards[g].h, calls |-> <<RevertCall(t, v, os.ret)>>,
          ret |-> os.ret, redir |-> os.redir, lastError |-> os.lastError,
          logged |-> <<>>, panic |-> os.ret # 1]
    ELSE [h |-> guards[g].h, calls |-> <<>>, ret |-> 1, redir |-> redir,
          lastError |-> lastError, logged |-> <<>>, panic |-> FALSE]

\* A drop() that takes the handle out of the option (self.0.take()).
drop_Take(t, g, v, ok, code) ==
    LET os == Wow64RevertWow64FsRedirection(t, v, ok, code) IN
    IF guards[g].h.tag = "Some"
    THEN [h |-> None, calls |-> <<RevertCall(t, v, os.ret)>>,
          ret |-> os.ret, redir |-> os.redir, lastError |-> os.lastError,
          logged |-> IF os.ret # 1 THEN <<GetLastError(os.lastError, t)>> ELSE <<>>,
          panic |-> FALSE]
    ELSE [h |-> guards[g].h, calls |-> <<>>, ret |-> 1, redir |-> redir,
          lastError |-> lastError, logged |-> <<>>, panic |-> FALSE]

\* fn drop(&mut self), run on thread t for guard g; v is the value the read
\* *h yields and (ok, code) what the OS does with the revert call.  The
\* result: the guard's field afterwards, the revert calls made, the OS state,
\* the error! records written and whether the call panicked.
drop(t, g, v, ok, code) ==
    LET os == Wow64RevertWow64FsRedirection(t, v, ok, code) IN
    IF guards[g].h.tag = "Some"
    THEN [h |-> guards[g].h, calls |-> <<RevertCall(t, v, os.ret)>>,
          ret |-> os.ret, redir |-> os.redir, lastError |-> os.lastError,
          logged |-> IF os.ret # 1 THEN <<GetLastError(os.lastError, t)>> ELSE <<>>,
          panic |-> FALSE]
    ELSE [h |-> guards[g].h, calls |-> <<>>, ret |-> 1, redir |-> redir,
          lastError |-> lastError, logged |-> <<>>, panic |-> FALSE]

\* ------------------------------------------------------------ calling code
\* DisableFsRedirection::start() called on thread t; an Ok guard is bound in
\* a new innermost scope (a let binding, or the parameter of the closure
\* given to map, which owns it until the closure returns).
Start(t) ==
    /\ status[t] = "running"
    /\ Len(guards) < MaxGuards
    /\ \E ok \in BOOLEAN, code \in DisableErrCodes :
         LET r == start(t, ok, code)
             id == Len(guards) + 1 IN
         /\ redir' = r.redir
         /\ lastError' = r.lastError
         /\ guards' = IF r.made
                      THEN Append(guards,
                             [thread |-> t, h |-> r.h, written |-> r.old,
                              ret |-> r.ret, depth |-> Len(scopes[t]) + 1,
                              state |-> "live", scope |-> "open",
                              via |-> "none", reverts |-> <<>>])
                      ELSE guards
         /\ scopes' = IF r.made THEN [scopes EXCEPT ![t] = Append(@, id)] ELSE scopes
         /\ result' = [res |-> r.res, code |-> r.code, ret |-> r.ret,
                       oserr |-> IF r.ret = 1 THEN 0 ELSE r.lastError[t],
                       guard |-> IF r.made THEN id ELSE 0]
    /\ UNCHANGED <<status, log>>

\* The drop glue running Drop::drop on guard g on thread t, after which the
\* value is gone; `close` says whether the binding's scope ends with it.
RunDrop(t, g, via, close) ==
    \E v \in Deref(guards[g].h.ptr), ok \in BOOLEAN, code \in RevertErrCodes :
      LET d == drop(t, g, v, ok, code) IN
      /\ guards' = [guards EXCEPT ![g].h = d.h,
                                  ![g].reverts = @ \o d.calls,
                                  ![g].state = "dropped",
                                  ![g].via = via,
                                  ![g].scope = IF close THEN "closed" ELSE @]
      /\ redir' = d.redir
      /\ lastError' = d.lastError
      /\ log' = log \o d.logged
      /\ status' = IF d.panic THEN [status EXCEPT ![t] = "unwinding"] ELSE status
      /\ UNCHANGED result

Top(t) == scopes[t][Len(scopes[t])]
Pop(t) == [scopes EXCEPT ![t] = SubSeq(@, 1, Len(@) - 1)]

\* std::mem::drop(guard): an explicit release of a guard that is still
\* initialised; the binding is moved out of and its scope stays open.
ExplicitDrop(t, g) ==
    /\ status[t] = "running"
    /\ g \in GuardIds
    /\ Live(g)
    /\ t \in HolderThreads(g)
    /\ RunDrop(t, g, "explicit", FALSE)
    /\ UNCHANGED scopes

\* The innermost scope of thread t ends (normal or early return, the closure
\* given to map returning): the guard bound there is dropped if it is still
\* initialised, and nothing runs if it was moved out of.
ScopeExit(t) ==
    /\ status[t] = "running"
    /\ scopes[t] # <<>>
    /\ scopes' = Pop(t)
    /\ \/ /\ Live(Top(t))
          /\ RunDrop(t, Top(t), "scope", TRUE)
       \/ /\ ~Live(Top(t))
          /\ guards' = [guards EXCEPT ![Top(t)].scope = "closed"]
          /\ UNCHANGED <<redir, lastError, log, status, result>>

\* A failure propagates through the calling code of thread t: it unwinds.
Panic(t) ==
    /\ status[t] = "running"
    /\ status' = [status EXCEPT ![t] = "unwinding"]
    /\ UNCHANGED <<redir, lastError, guards, scopes, log, result>>

\* Unwinding leaves the innermost open scope of thread t.
Unwind(t) ==
    /\ status[t] = "unwinding"
    /\ scopes[t] # <<>>
    /\ scopes' = Pop(t)
    /\ \/ /\ Live(Top(t))
          /\ RunDrop(t, Top(t), "scope", TRUE)
       \/ /\ ~Live(Top(t))
          /\ guards' = [guards EXCEPT ![Top(t)].scope = "closed"]
          /\ UNCHANGED <<redir, lastError, log, status, result>>

Next ==
    \/ \E t \in Threads : Start(t)
    \/ \E t \in Threads, g \in 1..MaxGuards : ExplicitDrop(t, g)
    \/ \E t \in Threads : ScopeExit(t)
    \/ \E t \in Threads : Panic(t)
    \/ \E t \in Threads : Unwind(t)

Spec == Init /\ [][Next]_vars

\* ------------------------------------------------------------------ claims
GuardsOf(t) == {g \in GuardIds : guards[g].thread = t}
Reverts(g) == guards[g].reverts
Closed(g) == guards[g].scope = "closed"
\* Every revert call made for a guard of thread t reported success.
AllRevertsOk(t) ==
    \A g \in GuardsOf(t) : \A i \in 1..Len(Reverts(g)) : Reverts(g)[i].ret = 1
\* No guard of thread t was released explicitly (out of scope order).
NoExplicit(t) == \A g \in GuardsOf(t) : guards[g].via # "explicit"

\* C1: when the disable primitive returns anything other than 1, start()
\* returns Err with the code the last-error query gives right after the call
\* (the code that failing call set), returns no guard, and no guard (so no
\* revert call) exists that a failed call made.
C1_StartFailure ==
    /\ (result.res # "none" /\ result.ret # 1) =>
          /\ result.res = "Err"
          /\ result.code = result.oserr
          /\ result.guard = 0
    /\ \A g \in GuardIds : guards[g].ret = 1
    /\ result.res = "Ok" => result.ret = 1 /\ result.guard = Len(guards)

C1_Witness ==
    /\ result.res = "Err"
    /\ result.code \in DisableErrCodes
    /\ \E t \in Threads : lastError[t] = result.code
    /\ guards # <<>>

\* C2: a guard that left its scope without an explicit release, by a normal
\* or early return or by unwinding, has had the revert primitive called for
\* it exactly once, and a guard still in scope has had none.
C2_DropOnScopeExit ==
    \A g \in GuardIds :
        /\ (Closed(g) /\ guards[g].via # "explicit") => Len(Reverts(g)) = 1
        /\ Live(g) => Len(Reverts(g)) = 0 /\ ~Closed(g)

C2_Witness ==
    \E g \in GuardIds :
        /\ Closed(g)
        /\ guards[g].via = "scope"
        /\ status[guards[g].thread] = "unwinding"
        /\ Len(Reverts(g)) = 1
        /\ \E g2 \in GuardIds : g2 # g /\ Closed(g2) /\ guards[g2].via = "scope"
                                /\ status[guards[g2].thread] = "running"

\* C3: the value passed to the revert primitive when a guard is released is
\* the token the disable primitive wrote during that guard's own start().
C3_TokenByValue ==
    \A g \in GuardIds : \A i \in 1..Len(Reverts(g)) :
        Reverts(g)[i].arg = guards[g].written

\* C4: when the revert primitive reports failure during a release, the step
\* writes one log record carrying the last-error code of the releasing thread
\* and raises nothing: the thread's status is what it was.
C4_RevertFailureLogged ==
    [][\A g \in GuardIds :
          (Len(guards'[g].reverts) > Len(guards[g].reverts)
             /\ guards'[g].reverts[Len(guards'[g].reverts)].ret # 1) =>
          LET t == guards'[g].reverts[Len(guards'[g].reverts)].thread IN
          /\ log' = Append(log, lastError'[t])
          /\ lastError'[t] \in RevertErrCodes
          /\ status' = status]_vars

C4_Witness ==
    \E g \in GuardIds :
        /\ Len(Reverts(g)) = 1
        /\ Reverts(g)[1].ret = 0
        /\ log # <<>>
        /\ status[guards[g].thread] = "running"
        /\ redir[guards[g].thread] = Disabled

\* C5: whatever release triggers reach a guard (an explicit release followed
\* by the end of its scope, a scope exit, unwinding), the revert primitive is
\* called at most once for it, and exactly once when it has been released.
C5_ReleaseIdempotent ==
    \A g \in GuardIds :
        /\ Len(Reverts(g)) <= 1
        /\ ~Live(g) => Len(Reverts(g)) = 1

C5_Witness ==
    \E g \in GuardIds :
        /\ guards[g].via = "explicit"
        /\ Closed(g)
        /\ Len(Reverts(g)) = 1

\* C6: with a single guard at a time on a thread (start().map(|_| body)),
\* never released explicitly and every revert reporting success, redirection
\* is disabled while the guard is alive and is again what it was before
\* start() (enabled) once the guard's scope is left.
C6_DisabledExactlyInScope ==
    \A t \in Threads :
        (/\ AllRevertsOk(t)
         /\ NoExplicit(t)
         /\ \A g \in GuardsOf(t) : guards[g].depth = 1) =>
        /\ (\E g \in GuardsOf(t) : Live(g)) => redir[t] = Disabled
        /\ (\A g \in GuardsOf(t) : Closed(g)) => redir[t] = Enabled

\* C7: a successful start() leaves every existing guard as it was and makes
\* its guard from a fresh call of the disable primitive on its own thread (the
\* token is the thread's redirection word of that moment, redirection is
\* disabled afterwards, no revert has been made for it), and a release
\* changes no guard but the one released.
C7_GuardsIndependent ==
    [][/\ \A g \in GuardIds : guards'[g] # guards[g] =>
             \A g2 \in GuardIds \ {g} : guards'[g2] = guards[g2]
       /\ Len(guards') > Len(guards) =>
             LET n == guards'[Len(guards')] IN
             /\ Len(guards') = Len(guards) + 1
             /\ \A g \in GuardIds : guards'[g] = guards[g]
             /\ n.written = redir[n.thread]
             /\ redir'[n.thread] = Disabled
             /\ n.h = Some(AddrOfOld(n.thread))
             /\ n.state = "live" /\ n.reverts = <<>>
             /\ result'.res = "Ok" /\ result'.guard = Len(guards')]_vars

C7_Witness ==
    \E t \in Threads :
        /\ Len(guards) >= 2
        /\ guards[1].thread = t /\ guards[2].thread = t
        /\ Closed(1) /\ Len(Reverts(1)) = 1 /\ Reverts(1)[1].ret = 0
        /\ guards[2].depth = 1
        /\ Closed(2) /\ Len(Reverts(2)) = 1

\* C8: every revert call runs on the thread that made the guard's disable
\* call, and a thread's redirection word changes only in a step that creates
\* or releases a guard of that same thread.
C8_ThreadAffine ==
    [][/\ \A g \in 1..Len(guards') : \A i \in 1..Len(guards'[g].reverts) :
             guards'[g].reverts[i].thread = guards'[g].thread
       /\ \A u \in Threads : redir'[u] # redir[u] =>
             \E g \in 1..Len(guards') :
                /\ guards'[g].thread = u
                /\ \/ g > Len(guards)
                   \/ guards'[g].reverts # guards[g].reverts]_vars

C8_Witness ==
    \E a \in GuardIds, b \in GuardIds :
        /\ guards[a].thread = "A" /\ guards[b].thread = "B"
        /\ Len(Reverts(a)) = 1 /\ Reverts(a)[1].ret = 1 /\ Reverts(a)[1].arg = Enabled
        /\ Live(b)
        /\ redir["A"] = Enabled /\ redir["B"] = Disabled

\* C9 as stated: once the release code has run on a guard, its optional
\* handle is empty.
C9_HandleEmptied ==
    \A g \in GuardIds : ~Live(g) => guards[g].h = None

\* C9 as amended: the release ends the guard whether the revert reported
\* success or failure (a guard with a revert call is no longer alive and never
\* is again, and no further revert is made for it), while drop() leaves the
\* optional handle as start() set it.
C9_ReleaseEndsGuard ==
    [][\A g \in 1..Len(guards') :
          /\ guards'[g].h = Some(AddrOfOld(guards'[g].thread))
          /\ guards'[g].reverts # <<>> => guards'[g].state = "dropped"
          /\ (g \in GuardIds /\ ~Live(g)) =>
                /\ guards'[g].state = "dropped"
                /\ guards'[g].reverts = guards[g].reverts]_vars

C9_Witness ==
    \E g \in GuardIds, g2 \in GuardIds :
        /\ ~Live(g) /\ Reverts(g)[1].ret = 0 /\ guards[g].h.tag = "Some"
        /\ ~Live(g2) /\ Reverts(g2)[1].ret = 1 /\ guards[g2].h.tag = "Some"

\* C10: on a thread where guards were nested and released in reverse order
\* of acquisition, every revert reporting success, each release passes the
\* token of its own acquisition, redirection stays disabled while a guard is
\* alive, and after the outermost release the redirection word is the one
\* from before the first start().
C10_NestedRoundTrip ==
    \A t \in Threads :
        (/\ AllRevertsOk(t)
         /\ NoExplicit(t)
         /\ \E g \in GuardsOf(t) : guards[g].depth >= 2) =>
        /\ \A g \in GuardsOf(t) : \A i \in 1..Len(Reverts(g)) :
              Reverts(g)[i].arg = guards[g].written
        /\ (\E g \in GuardsOf(t) : Live(g)) => redir[t] = Disabled
        /\ (\A g \in GuardsOf(t) : Closed(g)) =>
              \A g \in GuardsOf(t) :
                 (\A g2 \in GuardsOf(t) : g <= g2) => redir[t] = guards[g].written
====
